---------------------------- MODULE Spec2Model ----------------------------
(***************************************************************************)
(* Model of the HTML5 banner generator: the incremental generator of       *)
(* bin/cli.js (generateFromFormatsJson and its helpers) and the earlier    *)
(* generator kept in the repository (templates/standard only, no modes).   *)
(*                                                                         *)
(* JSON values are tagged records [t, s, kv]: t is the JSON type, s the    *)
(* literal text of a scalar, kv the members of an object (<<key, value>>   *)
(* in insertion order) or the elements of an array (<<"", value>>).        *)
(* Strings produced by the program (fingerprints) are sequences of tokens. *)
(***************************************************************************)
EXTENDS Integers, Sequences, FiniteSets, TLC

VARIABLES
  cfg,      \* the configuration file: [formats, campaign, clicktag]
  opts,     \* the switches of the current run
  pc,       \* "idle" | "loop" | "done" | "aborted"
  idx,      \* loop index of generateFromFormatsJson (0-based, as in the code)
  cnt,      \* processed / created / updated / skipped / filteredOut
  fs,       \* the output tree: artifact directory -> its files
  zips,     \* output/zip: archive name -> archive
  it,       \* the locals of the last loop iteration
  runNo,    \* number of runs started
  repeat,   \* this run repeats the completed run before it: same switches, nothing changed
  edits,    \* number of changes the user has made to the output tree
  arg,      \* input of the pure-function specifications
  res       \* their result

vars == <<cfg, opts, pc, idx, cnt, fs, zips, it, runNo, repeat, edits, arg, res>>

\* -------------------- JSON values --------------------

Num(s) == [t |-> "num", s |-> s, kv |-> <<>>]

Str(s) == [t |-> "str", s |-> s, kv |-> <<>>]

Null == [t |-> "null", s |-> "null", kv |-> <<>>]

Undefined == [t |-> "undefined", s |-> "", kv |-> <<>>]

Obj(members) == [t |-> "obj", s |-> "", kv |-> members]

Arr(items) == [t |-> "arr", s |-> "", kv |-> [i \in 1..Len(items) |-> <<"", items[i]>>]]

Keys(o) == {o.kv[i][1] : i \in 1..Len(o.kv)}

\* x.key of JavaScript: undefined when x is no object or has no such key
Get(o, key) ==
  IF o.t = "obj" /\ key \in Keys(o)
    THEN o.kv[CHOOSE i \in 1..Len(o.kv) : o.kv[i][1] = key][2]
    ELSE Undefined

\* a ?? b
Nullish(v) == v.t \in {"null", "undefined"}

Coalesce(a, b) == IF Nullish(a) THEN b ELSE a

\* -------------------- strings of the model --------------------

\* The keys a configuration uses, in the order Array.prototype.sort gives them
\* (UTF-16 code units).
KeyOrder ==
  <<"adserver", "brand", "clicktag", "height", "lang", "language", "motive",
    "motiveName", "size", "type", "width">>

RECURSIVE JoinTokens(_, _)
JoinTokens(ss, sep) ==
  IF ss = <<>> THEN <<>>
  ELSE IF Len(ss) = 1 THEN ss[1]
  ELSE ss[1] \o <<sep>> \o JoinTokens(Tail(ss), sep)

\* JSON.stringify of a value, as a token sequence; members in the value's own order
RECURSIVE JsonStringify(_)
JsonStringify(v) ==
  CASE v.t = "obj" ->
         <<"{">> \o
         JoinTokens([i \in 1..Len(v.kv) |->
                       <<"\"" \o v.kv[i][1] \o "\"", ":">> \o JsonStringify(v.kv[i][2])], ",")
         \o <<"}">>
    [] v.t = "arr" ->
         <<"[">> \o
         JoinTokens([i \in 1..Len(v.kv) |-> JsonStringify(v.kv[i][2])], ",")
         \o <<"]">>
    [] v.t = "str" -> <<"\"" \o v.s \o "\"">>
    [] OTHER -> <<v.s>>

\* Object.keys(x).sort(): the keys of x in code-unit order
SortedKeys(o) == SelectSeq(KeyOrder, LAMBDA k : k \in Keys(o))

\* sorter, were only the outermost mapping rebuilt with sorted keys
SorterShallow(x) ==
  IF x.t = "obj"
    THEN Obj([i \in 1..Len(SortedKeys(x)) |->
               <<SortedKeys(x)[i], Get(x, SortedKeys(x)[i])>>])
    ELSE x

\* sorter of stableStringify: mappings rebuilt with sorted keys at every depth,
\* sequences mapped in place, scalars returned as they are.  A configuration read
\* from JSON is a tree, so the `seen` set never meets an object twice.
RECURSIVE sorter(_)
sorter(x) ==
  CASE x.t = "arr" -> [x EXCEPT !.kv = [i \in 1..Len(x.kv) |-> <<"", sorter(x.kv[i][2])>>]]
    [] x.t = "obj" ->
         Obj([i \in 1..Len(SortedKeys(x)) |->
               <<SortedKeys(x)[i], sorter(Get(x, SortedKeys(x)[i]))>>])
    [] OTHER -> x

stableStringify(obj) == JsonStringify(sorter(obj))


\* -------------------- numbers and text --------------------

NaN == [fin |-> FALSE, n |-> 0]

Finite(n) == [fin |-> TRUE, n |-> n]

\* value of a run of decimal digits (the numerals the configurations use)
DigitVal ==
  ("0" :> 0) @@ ("90" :> 90) @@ ("250" :> 250) @@ ("300" :> 300) @@ ("728" :> 728)

\* `${n}` for a finite number n
NumStr(n) == CHOOSE s \in DOMAIN DigitVal : DigitVal[s] = n

\* Number(v)
ToNumber(v) ==
  CASE v.t = "num" -> Finite(DigitVal[v.s])
    [] v.t = "str" ->
         IF v.s = "" THEN Finite(0)
         ELSE IF v.s \in DOMAIN DigitVal THEN Finite(DigitVal[v.s])
         ELSE NaN
    [] v.t = "null" -> Finite(0)
    [] v.t = "bool" -> Finite(IF v.s = "true" THEN 1 ELSE 0)
    [] OTHER -> NaN

\* String(v)
ToStr(v) ==
  CASE v.t = "obj" -> "[object Object]"
    [] v.t = "undefined" -> "undefined"
    [] v.t = "arr" -> ""
    [] OTHER -> v.s

\* truthiness of a value
Truthy(v) ==
  CASE v.t \in {"null", "undefined"} -> FALSE
    [] v.t = "str" -> v.s # ""
    [] v.t = "num" -> DigitVal[v.s] # 0
    [] v.t = "bool" -> v.s = "true"
    [] OTHER -> TRUE

NumberIsFinite(n) == n.fin

normalizeSize(width, height) ==
  LET w == ToNumber(width)
      h == ToNumber(height)
  IN  IF ~NumberIsFinite(w) \/ ~NumberIsFinite(h) THEN ""
      ELSE NumStr(w.n) \o "x" \o NumStr(h.n)

\* -------------------- the configurations --------------------

FormatUniverse ==
  << Obj(<< <<"width", Num("300")>>, <<"height", Num("250")>>, <<"language", Str("en")>> >>),
     Obj(<< <<"size", Str("40kb")>>, <<"lang", Str("en")>>, <<"height", Num("250")>>,
            <<"width", Str("300")>> >>),
     Obj(<< <<"width", Str("wide")>>, <<"height", Num("90")>>, <<"language", Str("de")>> >>),
     Obj(<< <<"width", Num("728")>>, <<"height", Num("90")>>, <<"motive", Str("m1")>>,
            <<"clicktag", Str("https://fmt")>>,
            <<"brand", Obj(<< <<"type", Str("rich")>> >>)>> >>) >>

FormatIds == 1..Len(FormatUniverse)

MaxFormats == 2

MaxRuns == 2

MaxEdits == 1

RECURSIVE SeqsUpTo(_, _)
SeqsUpTo(S, n) ==
  IF n = 0 THEN {<<>>}
  ELSE LET shorter == SeqsUpTo(S, n - 1)
       IN  shorter \cup {Append(q, x) : q \in {r \in shorter : Len(r) = n - 1}, x \in S}

\* formats.json: an object with campaign, clicktag and a non-empty formats list
Configs == {c \in SeqsUpTo(FormatIds, MaxFormats) : Len(c) >= 1}

CfgObject ==
  Obj(<< <<"campaign", Str("my camp")>>, <<"clicktag", Str("https://cfg")>> >>)

DEFAULT_CAMPAIGN == "my-campaign"

DEFAULT_CLICKTAG == "https://example.com"

DEFAULT_ADSERVER_TYPE == "standard"

\* the template roots present under templates/
TemplatesOnDisk == {"standard", "rich"}

\* -------------------- templates --------------------

\* the existence test of the template root, were it left out
TemplateRootAssumed(templateType) == TRUE

\* fs.pathExists(templateRoot)
templateRootExists(templateType) == templateType \in TemplatesOnDisk

getTemplateRoot(fmt, cfgObj, templateOverride) ==
  ToStr(Coalesce(templateOverride,
          Coalesce(Get(Get(fmt, "brand"), "type"),
            Coalesce(Get(Get(cfgObj, "brand"), "type"), Str("standard")))))

\* -------------------- command line values --------------------

\* getArgValue(flag): null when the flag is absent, else the text of the next
\* argument, kept as its characters
NoArg == [given |-> FALSE, text |-> <<>>]

ArgOf(chars) == [given |-> TRUE, text |-> chars]

RECURSIVE StrOf(_)
StrOf(cs) == IF cs = <<>> THEN "" ELSE Head(cs) \o StrOf(Tail(cs))

\* String.prototype.split(",")
RECURSIVE SplitComma(_)
SplitComma(cs) ==
  IF \A i \in 1..Len(cs) : cs[i] # ","
    THEN <<cs>>
    ELSE LET k == CHOOSE i \in 1..Len(cs) : cs[i] = "," /\ \A j \in 1..(i - 1) : cs[j] # ","
         IN  <<SubSeq(cs, 1, k - 1)>> \o SplitComma(SubSeq(cs, k + 1, Len(cs)))

\* String.prototype.trim()
RECURSIVE Trim(_)
Trim(cs) ==
  IF cs = <<>> THEN cs
  ELSE IF Head(cs) = " " THEN Trim(Tail(cs))
  ELSE IF cs[Len(cs)] = " " THEN Trim(SubSeq(cs, 1, Len(cs) - 1))
  ELSE cs

Digits == ("0" :> 0) @@ ("1" :> 1) @@ ("2" :> 2) @@ ("3" :> 3) @@ ("4" :> 4) @@
          ("5" :> 5) @@ ("6" :> 6) @@ ("7" :> 7) @@ ("8" :> 8) @@ ("9" :> 9)

AllDigits(cs) == cs # <<>> /\ \A i \in 1..Len(cs) : cs[i] \in DOMAIN Digits

RECURSIVE Decimal(_)
Decimal(cs) == IF cs = <<>> THEN 0 ELSE 10 * Decimal(SubSeq(cs, 1, Len(cs) - 1)) + Digits[cs[Len(cs)]]

\* Number(s) for the text of an index: digits with an optional sign
CharsToNumber(cs) ==
  IF cs = <<>> THEN Finite(0)
  ELSE IF AllDigits(cs) THEN Finite(Decimal(cs))
  ELSE IF Head(cs) = "-" /\ AllDigits(Tail(cs)) THEN Finite(0 - Decimal(Tail(cs)))
  ELSE NaN

\* a Set, or null
NoSet == [on |-> FALSE, set |-> {}]

SetOf(S) == [on |-> TRUE, set |-> S]

NonEmptyParts(v) ==
  LET parts == SplitComma(v.text)
  IN  {Trim(parts[i]) : i \in 1..Len(parts)} \ {<<>>}

parseCsvSet(v) ==
  IF ~v.given \/ v.text = <<>> THEN NoSet
  ELSE LET parts == {StrOf(q) : q \in NonEmptyParts(v)}
       IN  IF parts # {} THEN SetOf(parts) ELSE NoSet

parseIndexSet(v) ==
  IF ~v.given \/ v.text = <<>> THEN NoSet
  ELSE LET nums  == {CharsToNumber(q) : q \in NonEmptyParts(v)}
           parts == {n.n : n \in {m \in nums : NumberIsFinite(m) /\ m.n >= 0}}
       IN  IF parts # {} THEN SetOf(parts) ELSE NoSet

\* the five --only-* values and the sizes given as free arguments or at the prompt
buildFilters(onlySizesFromPromptOrArgs, cli) ==
  [ onlySize     |-> IF onlySizesFromPromptOrArgs.on THEN onlySizesFromPromptOrArgs
                     ELSE parseCsvSet(cli.size),
    onlyLang     |-> parseCsvSet(cli.lang),
    onlyMotive   |-> parseCsvSet(cli.motive),
    onlyTemplate |-> parseCsvSet(cli.template),
    onlyIndex    |-> parseIndexSet(cli.index) ]

\* matchesFilters, were one failing filter forgiven by another that passes
MatchesAnyFilter(fmt, i, cfgObj, templateOverride, filters) ==
  LET size == normalizeSize(Get(fmt, "width"), Get(fmt, "height"))
      lang == ToStr(Coalesce(Coalesce(Get(fmt, "language"), Get(fmt, "lang")), Str("")))
      motive == ToStr(Coalesce(Coalesce(Get(fmt, "motive"), Get(fmt, "motiveName")), Str("")))
      templateType == getTemplateRoot(fmt, cfgObj, templateOverride)
      none == ~filters.onlyIndex.on /\ ~filters.onlySize.on /\ ~filters.onlyLang.on
              /\ ~filters.onlyMotive.on /\ ~filters.onlyTemplate.on
  IN  \/ none
      \/ filters.onlyIndex.on /\ i \in filters.onlyIndex.set
      \/ filters.onlySize.on /\ size \in filters.onlySize.set
      \/ filters.onlyLang.on /\ lang \in filters.onlyLang.set
      \/ filters.onlyMotive.on /\ motive \in filters.onlyMotive.set
      \/ filters.onlyTemplate.on /\ templateType \in filters.onlyTemplate.set

matchesFilters(fmt, i, cfgObj, templateOverride, filters) ==
  LET size == normalizeSize(Get(fmt, "width"), Get(fmt, "height"))
      lang == ToStr(Coalesce(Coalesce(Get(fmt, "language"), Get(fmt, "lang")), Str("")))
      motive == ToStr(Coalesce(Coalesce(Get(fmt, "motive"), Get(fmt, "motiveName")), Str("")))
      templateType == getTemplateRoot(fmt, cfgObj, templateOverride)
  IN  IF filters.onlyIndex.on /\ i \notin filters.onlyIndex.set THEN FALSE
      ELSE IF filters.onlySize.on /\ size \notin filters.onlySize.set THEN FALSE
      ELSE IF filters.onlyLang.on /\ lang \notin filters.onlyLang.set THEN FALSE
      ELSE IF filters.onlyMotive.on /\ motive \notin filters.onlyMotive.set THEN FALSE
      ELSE IF filters.onlyTemplate.on /\ templateType \notin filters.onlyTemplate.set THEN FALSE
      ELSE TRUE

\* -------------------- artifact directories --------------------

resolveLangAndMotive(fmt) ==
  [ langCode   |-> Coalesce(Coalesce(Get(fmt, "language"), Get(fmt, "lang")), Null),
    motiveName |-> Coalesce(Coalesce(Get(fmt, "motive"), Get(fmt, "motiveName")), Null) ]

\* path.join(outRoot, lang?, motive?, "WxH"), relative to outRoot
bannerFolderFor(langCode, motiveName, width, height) ==
  (IF Truthy(langCode) THEN ToStr(langCode) \o "/" ELSE "")
  \o (IF Truthy(motiveName) THEN ToStr(motiveName) \o "/" ELSE "")
  \o NumStr(width) \o "x" \o NumStr(height)

ValidFormat(f) ==
  NumberIsFinite(ToNumber(Get(f, "width"))) /\ NumberIsFinite(ToNumber(Get(f, "height")))

FolderOf(f) ==
  LET lm == resolveLangAndMotive(f)
  IN  bannerFolderFor(lm.langCode, lm.motiveName,
                      ToNumber(Get(f, "width")).n, ToNumber(Get(f, "height")).n)

\* the artifact directories the configurations can name
Folders == {FolderOf(FormatUniverse[i]) : i \in {j \in FormatIds : ValidFormat(FormatUniverse[j])}}

\* the files of an artifact directory, in the order of a sorted directory listing
FileOrder ==
  << ".DS_Store", ".gen-state.json", "assets/b.svg", "assets/b.svg.mustache",
     "assets/logo.png", "index.html", "index.html.mustache", "style.css" >>

FileNames == {FileOrder[i] : i \in 1..Len(FileOrder)}

\* the files of a template root (the same in every template of the model)
TemplateFiles == {"index.html.mustache", "style.css", "assets/logo.png"}

\* src.includes("/assets/")
UnderAssets == {"assets/b.svg", "assets/b.svg.mustache", "assets/logo.png"}

\* /\.(png|jpe?g|gif|webp|svg)$/i and not /@2x\./i
ImageFiles == {"assets/b.svg", "assets/logo.png"}

\* name.endsWith(".mustache"), with the name the suffix is stripped to
MustacheOut == ("index.html.mustache" :> "index.html") @@ ("assets/b.svg.mustache" :> "assets/b.svg")

\* /\.(html|css|js|json|txt|md)$/i
TextFiles == {".gen-state.json", "index.html", "style.css"}

\* file contents
NoFile ==
  [k |-> "none", from |-> "", fmt |-> 0, click |-> "", assets |-> <<>>, tt |-> "",
   sig |-> <<>>]

\* a file as the template root of type tt holds it
Tpl(tt) == [NoFile EXCEPT !.k = "tpl", !.from = tt]

\* a file written or edited by the user
UserFile == [NoFile EXCEPT !.k = "user", !.from = "user"]

\* mustache.render(raw, data): the text of source `raw` with the variables of data
Rendered(raw, data)  ==
  [NoFile EXCEPT !.k = "out", !.from = raw.from, !.fmt = data.fmt, !.click = data.click,
                 !.assets = data.assets, !.tt = data.tt]

\* the GenerationState record .gen-state.json; updatedAt, which nothing reads, is left out
StateFile(assetsFiles, fmtSig, templateType) ==
  [NoFile EXCEPT !.k = "state", !.assets = assetsFiles, !.sig = fmtSig, !.tt = templateType]

EmptyDir == [dir |-> FALSE, files |-> [n \in FileNames |-> NoFile]]

Has(d, n) == d.files[n].k # "none"

\* the existence test, were it to find nothing
PathAssumedMissing(d, n) == FALSE

\* fs.pathExists(path.join(dir, name))
pathExists(d, n) == Has(d, n)

ensureDir(d) == [d EXCEPT !.dir = TRUE]

\* filter of fs.copy: (src) => !src.includes(`${path.sep}assets${path.sep}`)
copyFilter(n) == n \notin UnderAssets

\* fs.copy(templateRoot, bannerFolder, {overwrite: false, errorOnExist: false, filter})
ensureTemplateOnCreate(templateType, d, exists) ==
  IF exists THEN d
  ELSE [d EXCEPT !.dir = TRUE,
                 !.files = [n \in FileNames |->
                              IF n \in TemplateFiles /\ copyFilter(n) /\ ~Has(d, n)
                                THEN Tpl(templateType)
                                ELSE d.files[n]]]

\* readAssets: the image files of assets/, sorted, as their file names
readAssets(d) == SelectSeq(FileOrder, LAMBDA n : n \in ImageFiles /\ Has(d, n))

\* readGenState: the record, or null (NoFile) when missing or unreadable
readGenState(d) ==
  IF d.files[".gen-state.json"].k = "state" THEN d.files[".gen-state.json"] ELSE NoFile

writeGenState(d, state) == [d EXCEPT !.files[".gen-state.json"] = state]

sameStringArray(a, b) ==
  IF Len(a) # Len(b) THEN FALSE
  ELSE \A i \in 1..Len(a) : a[i] = b[i]

\* shouldProcessBanner, were the mode ignored
ShouldProcessAlways(mode, exists) == TRUE

shouldProcessBanner(mode, exists) ==
  IF mode = "create-only" /\ exists THEN FALSE
  ELSE IF mode = "update" /\ ~exists THEN FALSE
  ELSE TRUE

\* shouldRenderBanner, were a change of the asset list not looked at
ShouldRenderNoAssets(mode, exists, prevState, assetsFiles, fmtSig) ==
  LET fmtChanged == prevState.k = "none" \/ prevState.sig # fmtSig
  IN  IF mode = "update" THEN TRUE
      ELSE IF mode = "create-only" THEN ~exists
      ELSE ~exists \/ fmtChanged

shouldRenderBanner(mode, exists, prevState, assetsFiles, fmtSig) ==
  LET assetsChanged == prevState.k = "none" \/ ~sameStringArray(prevState.assets, assetsFiles)
      fmtChanged == prevState.k = "none" \/ prevState.sig # fmtSig
  IN  IF mode = "update" THEN TRUE
      ELSE IF mode = "create-only" THEN ~exists
      ELSE ~exists \/ assetsChanged \/ fmtChanged

\* renderFromMustacheFiles(dir, data, {overwrite: true}): every *.mustache of the
\* directory and of its subdirectories is rendered to the name without the suffix
renderFromMustacheFiles(d, data) ==
  [d EXCEPT !.files = [n \in FileNames |->
     IF \E m \in DOMAIN MustacheOut : MustacheOut[m] = n /\ Has(d, m)
       THEN Rendered(d.files[CHOOSE m \in DOMAIN MustacheOut : MustacheOut[m] = n], data)
       ELSE d.files[n]]]

\* -------------------- size budget and archives --------------------

\* a number, or null
NoNumber == [some |-> FALSE, n |-> 0]

SomeNumber(n) == [some |-> TRUE, n |-> n]

\* the texts the "size" of a format is drawn from, as characters
SizeTexts ==
  { <<"4", "0", "k", "b">>, <<"4", "0", " ", "K", "B">>, <<" ", "1", ".", "5", "k", "b">>,
    <<"0", "k", "b">>, <<"4", "0">>, <<"4", "0", "m", "b">>, <<"k", "b">>,
    <<"4", "0", ".", "k", "b">> }

CharsOf(str) == CHOOSE cs \in SizeTexts : StrOf(cs) = str

RECURSIVE Pow10(_)
Pow10(k) == IF k = 0 THEN 1 ELSE 10 * Pow10(k - 1)

\* /^(\d+(?:\.\d+)?)\s*kb$/i on trimmed text: the characters of group 1, or <<>>
KbNumeral(cs) ==
  LET t == Trim(cs)
      n == Len(t)
  IN  IF n < 3 \/ t[n - 1] \notin {"k", "K"} \/ t[n] \notin {"b", "B"} THEN <<>>
      ELSE LET body == Trim(SubSeq(t, 1, n - 2))
               dots == {i \in 1..Len(body) : body[i] = "."}
           IN  IF AllDigits(body) THEN body
               ELSE IF /\ Cardinality(dots) = 1
                       /\ \E i \in dots : /\ AllDigits(SubSeq(body, 1, i - 1))
                                          /\ AllDigits(SubSeq(body, i + 1, Len(body)))
                 THEN body
                 ELSE <<>>

\* Math.round(Number(numeral) * 1024)
KbToBytes(numeral) ==
  IF AllDigits(numeral) THEN Decimal(numeral) * 1024
  ELSE LET i == CHOOSE j \in 1..Len(numeral) : numeral[j] = "."
           frac == SubSeq(numeral, i + 1, Len(numeral))
           scale == Pow10(Len(frac))
           scaled == Decimal(SubSeq(numeral, 1, i - 1)) * scale + Decimal(frac)
       IN  (2 * scaled * 1024 + scale) \div (2 * scale)

\* parseKb(sizeStr), the text of sizeStr given as characters
parseKbText(cs) ==
  IF cs = <<>> THEN NoNumber
  ELSE IF KbNumeral(cs) = <<>> THEN NoNumber
  ELSE SomeNumber(KbToBytes(KbNumeral(cs)))

\* parseKb(fmt.size)
parseKb(sizeStr) ==
  IF ~Truthy(sizeStr) THEN NoNumber
  ELSE IF sizeStr.t # "str" THEN NoNumber
  ELSE parseKbText(CharsOf(sizeStr.s))

\* what checkZipSize returns: {ok, skipped} or {ok, actualBytes, maxBytes}; threw
\* tells whether the call ended in an exception instead
NoCheck ==
  [called |-> FALSE, ok |-> FALSE, skipped |-> FALSE, actualBytes |-> 0, maxBytes |-> 0,
   threw |-> FALSE]

\* checkZipSize, were an archive over its budget an error
CheckZipSizeFatal(actual, maxBytes) ==
  IF ~maxBytes.some \/ maxBytes.n = 0
    THEN [NoCheck EXCEPT !.called = TRUE, !.ok = TRUE, !.skipped = TRUE]
    ELSE [NoCheck EXCEPT !.called = TRUE, !.ok = (actual <= maxBytes.n),
                         !.actualBytes = actual, !.maxBytes = maxBytes.n,
                         !.threw = ~(actual <= maxBytes.n)]

checkZipSize(actual, maxBytes) ==
  IF ~maxBytes.some \/ maxBytes.n = 0
    THEN [NoCheck EXCEPT !.called = TRUE, !.ok = TRUE, !.skipped = TRUE]
    ELSE [NoCheck EXCEPT !.called = TRUE, !.ok = (actual <= maxBytes.n),
                         !.actualBytes = actual, !.maxBytes = maxBytes.n]

\* .replace(/\s+/g, "_").replace(/[^\w.-]+/g, "_") on one part of an archive name
Sanitized ==
  ("my camp" :> "my_camp") @@ ("en" :> "en") @@ ("de" :> "de") @@ ("m1" :> "m1")

makeZipName(campaign, langCode, motiveName, width, height) ==
  Sanitized[campaign]
  \o (IF Truthy(langCode) THEN "_" \o Sanitized[ToStr(langCode)] ELSE "")
  \o (IF Truthy(motiveName) THEN "_" \o Sanitized[ToStr(motiveName)] ELSE "")
  \o "_" \o NumStr(width) \o "x" \o NumStr(height) \o ".zip"

\* the sizes an archive can come out at (40 KB fits a budget of "40kb", 50 KB does not)
ZipSizes == {40 * 1024, 50 * 1024}

NoZip == [present |-> FALSE, files |-> {}, of |-> ""]

\* ignore: ["**/*.mustache", "**/.DS_Store", "**/Thumbs.db", "**/.gen-state.json"]
ZipIgnored == DOMAIN MustacheOut \cup {".DS_Store", ".gen-state.json"}

\* zipFolder(srcDir, zipPath): archive.glob("**/*", {dot: true, ignore})
zipFolder(folder, d) ==
  [present |-> TRUE, files |-> {n \in FileNames : Has(d, n) /\ n \notin ZipIgnored},
   of |-> folder]

\* -------------------- a run --------------------

Modes == {"incremental", "create-only", "update"}

NoCli == [size |-> NoArg, lang |-> NoArg, motive |-> NoArg, template |-> NoArg, index |-> NoArg]

\* the filter selections of the runs: none, and --only-lang en
FilterChoices ==
  { buildFilters(NoSet, NoCli),
    buildFilters(NoSet, [NoCli EXCEPT !.lang = ArgOf(<<"e", "n">>)]) }

\* the switches of a run of bin/cli.js, and of a run of the earlier generator,
\* which has no modes, no filters and one template
OptionsWith(zip, filterChoices) ==
  [ entry : {"cli"}, mode : Modes, shouldZip : {zip}, filters : filterChoices,
    templateOverride : {Null}, clicktagOverride : {Null}, campaignOverride : {Null} ]
  \cup
  [ entry : {"legacy"}, mode : {"none"}, shouldZip : {zip},
    filters : {buildFilters(NoSet, NoCli)},
    templateOverride : {Null}, clicktagOverride : {Null}, campaignOverride : {Null} ]

\* runs without --zip, and runs with it
RunOptions == OptionsWith(FALSE, FilterChoices)

ZipOptions == OptionsWith(TRUE, {buildFilters(NoSet, NoCli)})

NoOptions ==
  [ entry |-> "none", mode |-> "none", shouldZip |-> FALSE, filters |-> buildFilters(NoSet, NoCli),
    templateOverride |-> Null, clicktagOverride |-> Null, campaignOverride |-> Null ]

ZeroCounts == [processed |-> 0, created |-> 0, updated |-> 0, skipped |-> 0, filteredOut |-> 0]

\* the locals of one loop iteration
NoIter ==
  [ i |-> 0, outcome |-> "none", folder |-> "", exists |-> FALSE, copied |-> FALSE,
    hadState |-> FALSE, assetsChanged |-> FALSE, fmtChanged |-> FALSE,
    rendered |-> FALSE, zipName |-> "", check |-> NoCheck ]

ZipNames ==
  {makeZipName(c, resolveLangAndMotive(f).langCode, resolveLangAndMotive(f).motiveName,
               ToNumber(Get(f, "width")).n, ToNumber(Get(f, "height")).n) :
     c \in {"my camp"},
     f \in {FormatUniverse[j] : j \in {k \in FormatIds : ValidFormat(FormatUniverse[k])}}}

campaignOf(o) ==
  ToStr(Coalesce(o.campaignOverride, Coalesce(Get(CfgObject, "campaign"), Str(DEFAULT_CAMPAIGN))))

clicktagOf(o, fmt) ==
  ToStr(Coalesce(o.clicktagOverride,
          Coalesce(Get(CfgObject, "clicktag"),
            Coalesce(Get(fmt, "clicktag"), Str(DEFAULT_CLICKTAG)))))

\* one pass of the loop of generateFromFormatsJson (bin/cli.js) over formats[idx];
\* actual is the size the archive comes out at
loopBody(actual) ==
  LET fmtId == cfg[idx + 1]
      fmt == FormatUniverse[fmtId]
      base == [pc |-> "loop", cnt |-> cnt, fs |-> fs, zips |-> zips,
               it |-> [NoIter EXCEPT !.i = idx]]
  IN
  IF ~matchesFilters(fmt, idx, CfgObject, opts.templateOverride, opts.filters)
    THEN [base EXCEPT !.cnt.filteredOut = @ + 1, !.it.outcome = "filtered"]
  ELSE
  LET width == ToNumber(Get(fmt, "width"))
      height == ToNumber(Get(fmt, "height"))
  IN
  IF ~NumberIsFinite(width) \/ ~NumberIsFinite(height)
    THEN [base EXCEPT !.pc = "aborted", !.it.outcome = "invalid-size"]
  ELSE
  LET lm == resolveLangAndMotive(fmt)
      bannerFolder == bannerFolderFor(lm.langCode, lm.motiveName, width.n, height.n)
      exists == pathExists(fs[bannerFolder], "index.html")
      seen == [base EXCEPT !.it.folder = bannerFolder, !.it.exists = exists]
  IN
  IF ~shouldProcessBanner(opts.mode, exists)
    THEN [seen EXCEPT !.cnt.skipped = @ + 1, !.it.outcome = "skipped-by-mode"]
  ELSE
  LET templateType == getTemplateRoot(fmt, CfgObject, opts.templateOverride)
  IN
  IF ~templateRootExists(templateType)
    THEN [seen EXCEPT !.pc = "aborted", !.it.outcome = "no-template"]
  ELSE
  LET made == ensureTemplateOnCreate(templateType, ensureDir(fs[bannerFolder]), exists)
      assetsFiles == readAssets(made)
      prevState == readGenState(made)
      fmtSig == stableStringify(fmt)
      shouldRender == shouldRenderBanner(opts.mode, exists, prevState, assetsFiles, fmtSig)
      looked == [seen EXCEPT !.fs[bannerFolder] = made,
                             !.it.copied = ~exists,
                             !.it.hadState = (prevState.k # "none"),
                             !.it.assetsChanged =
                                (prevState.k = "none" \/ prevState.assets # assetsFiles),
                             !.it.fmtChanged = (prevState.k = "none" \/ prevState.sig # fmtSig)]
  IN
  IF ~shouldRender
    THEN [looked EXCEPT !.cnt.skipped = @ + 1, !.it.outcome = "skipped-fresh"]
  ELSE
  LET maxBytes == parseKb(Get(fmt, "size"))
      data == [fmt |-> fmtId, click |-> clicktagOf(opts, fmt), assets |-> assetsFiles,
               tt |-> templateType]
      rendered == renderFromMustacheFiles(made, data)
      saved == writeGenState(rendered, StateFile(assetsFiles, fmtSig, templateType))
      zipName == makeZipName(campaignOf(opts), lm.langCode, lm.motiveName, width.n, height.n)
      check == checkZipSize(actual, maxBytes)
      wrote == [looked EXCEPT !.fs[bannerFolder] = saved, !.it.rendered = TRUE]
      packed == IF opts.shouldZip
                  THEN [wrote EXCEPT !.zips[zipName] = zipFolder(bannerFolder, saved),
                                     !.it.zipName = zipName, !.it.check = check]
                  ELSE wrote
  IN
  IF opts.shouldZip /\ check.threw
    THEN [packed EXCEPT !.pc = "aborted", !.it.outcome = "size-error"]
    ELSE [packed EXCEPT !.cnt.processed = @ + 1,
                        !.cnt.created = IF exists THEN @ ELSE @ + 1,
                        !.cnt.updated = IF exists THEN @ + 1 ELSE @,
                        !.it.outcome = IF exists THEN "updated" ELSE "created"]

\* -------------------- the earlier generator --------------------

\* Both generators are given the same --outDir and campaign, so they work on the
\* same artifact directories.

\* fs.copy(TEMPLATE_ROOT, bannerFolder, {overwrite: true, filter})
legacyCopyTemplate(d) ==
  [d EXCEPT !.dir = TRUE,
            !.files = [n \in FileNames |->
                         IF n \in TemplateFiles /\ copyFilter(n) THEN Tpl("standard")
                         ELSE d.files[n]]]

\* renderTextFiles(dir, data): every *.mustache is rendered to the name without the
\* suffix and removed; every other text file is rendered in place.  Text that holds
\* no tag (an earlier output, the state record) renders to itself.
renderTextFiles(d, data) ==
  [d EXCEPT !.files = [n \in FileNames |->
     IF \E m \in DOMAIN MustacheOut : MustacheOut[m] = n /\ Has(d, m)
       THEN Rendered(d.files[CHOOSE m \in DOMAIN MustacheOut : MustacheOut[m] = n], data)
     ELSE IF n \in DOMAIN MustacheOut THEN NoFile
     ELSE IF n \in TextFiles /\ d.files[n].k \in {"tpl", "user"} THEN Rendered(d.files[n], data)
     ELSE d.files[n]]]

\* zipFolder of the earlier generator: archive.directory(srcDir, false)
legacyZipFolder(folder, d) ==
  [present |-> TRUE, files |-> {n \in FileNames : Has(d, n)}, of |-> folder]

\* one pass of the loop of the earlier generateFromFormatsJson over formats[idx]
legacyLoopBody ==
  LET fmtId == cfg[idx + 1]
      fmt == FormatUniverse[fmtId]
      base == [pc |-> "loop", cnt |-> cnt, fs |-> fs, zips |-> zips,
               it |-> [NoIter EXCEPT !.i = idx]]
      width == ToNumber(Get(fmt, "width"))
      height == ToNumber(Get(fmt, "height"))
  IN
  IF ~NumberIsFinite(width) \/ ~NumberIsFinite(height)
    THEN [base EXCEPT !.pc = "aborted", !.it.outcome = "invalid-size"]
  ELSE
  LET lm == resolveLangAndMotive(fmt)
      bannerFolder == bannerFolderFor(lm.langCode, lm.motiveName, width.n, height.n)
      exists == pathExists(fs[bannerFolder], "index.html")
      made == legacyCopyTemplate(ensureDir(fs[bannerFolder]))
      assetsFiles == readAssets(made)
      data == [fmt |-> fmtId, click |-> clicktagOf(opts, fmt), assets |-> assetsFiles,
               tt |-> ""]
      rendered == renderTextFiles(made, data)
      zipName == makeZipName(campaignOf(opts), lm.langCode, lm.motiveName, width.n, height.n)
      wrote == [base EXCEPT !.fs[bannerFolder] = rendered,
                            !.it.folder = bannerFolder, !.it.exists = exists,
                            !.it.copied = TRUE, !.it.rendered = TRUE,
                            !.it.outcome = "generated",
                            !.cnt.processed = @ + 1]
  IN
  IF opts.shouldZip
    THEN [wrote EXCEPT !.zips[zipName] = legacyZipFolder(bannerFolder, rendered),
                       !.it.zipName = zipName]
    ELSE wrote

\* -------------------- actions --------------------

Begin(o, again) ==
  /\ runNo < MaxRuns
  /\ opts' = o
  /\ repeat' = again
  /\ runNo' = runNo + 1
  /\ pc' = "loop"
  /\ idx' = 0
  /\ cnt' = ZeroCounts
  /\ it' = NoIter
  /\ UNCHANGED <<cfg, fs, zips, edits, arg, res>>

\* main(): the switches are read and generateFromFormatsJson is entered
StartRun(o) ==
  /\ pc = "idle"
  /\ Begin(o, FALSE)

\* the command that has just completed is given again, nothing having changed
RepeatRun ==
  /\ pc = "done"
  /\ Begin(opts, TRUE)

Apply(r) ==
  /\ pc' = r.pc
  /\ cnt' = r.cnt
  /\ fs' = r.fs
  /\ zips' = r.zips
  /\ it' = r.it
  /\ idx' = IF r.pc = "loop" THEN idx + 1 ELSE idx
  /\ UNCHANGED <<cfg, opts, runNo, repeat, edits, arg, res>>

\* the body of the for loop of bin/cli.js for formats[idx]
Iterate ==
  /\ pc = "loop"
  /\ opts.entry = "cli"
  /\ idx < Len(cfg)
  /\ \E actual \in ZipSizes : Apply(loopBody(actual))

\* the body of the for loop of the earlier generator for formats[idx]
LegacyIterate ==
  /\ pc = "loop"
  /\ opts.entry = "legacy"
  /\ idx < Len(cfg)
  /\ Apply(legacyLoopBody)

\* the loop is over: logSummary, and generateFromFormatsJson returns
FinishRun ==
  /\ pc = "loop"
  /\ idx = Len(cfg)
  /\ pc' = "done"
  /\ UNCHANGED <<cfg, opts, idx, cnt, fs, zips, it, runNo, repeat, edits, arg, res>>

\* the process ends: main() returns, or main().catch logs the error and exits
Exit ==
  /\ pc \in {"done", "aborted"}
  /\ pc' = "idle"
  /\ opts' = NoOptions
  /\ idx' = 0
  /\ cnt' = ZeroCounts
  /\ it' = NoIter
  /\ repeat' = FALSE
  /\ UNCHANGED <<cfg, fs, zips, runNo, edits, arg, res>>

\* between two runs the user drops files into assets/ of a generated banner
UserAssets == {"assets/b.svg", "assets/b.svg.mustache"}

UserPutAssets(folder, files) ==
  /\ pc = "idle"
  /\ runNo < MaxRuns
  /\ edits < MaxEdits
  /\ fs[folder].dir
  /\ \A n \in files : ~Has(fs[folder], n)
  /\ fs' = [fs EXCEPT ![folder].files =
              [n \in FileNames |-> IF n \in files THEN UserFile ELSE @[n]]]
  /\ edits' = edits + 1
  /\ UNCHANGED <<cfg, opts, pc, idx, cnt, zips, it, runNo, repeat, arg, res>>

\* between two runs the user edits the stylesheet of a generated banner by hand
UserEdit(folder) ==
  /\ pc = "idle"
  /\ runNo < MaxRuns
  /\ edits < MaxEdits
  /\ Has(fs[folder], "style.css")
  /\ fs[folder].files["style.css"] # UserFile
  /\ fs' = [fs EXCEPT ![folder].files["style.css"] = UserFile]
  /\ edits' = edits + 1
  /\ UNCHANGED <<cfg, opts, pc, idx, cnt, zips, it, runNo, repeat, arg, res>>

\* between two runs the file manager of the operating system leaves its metadata
\* file in the directory of a generated banner
OsMetadata(folder) ==
  /\ pc = "idle"
  /\ runNo < MaxRuns
  /\ edits < MaxEdits
  /\ fs[folder].dir
  /\ ~Has(fs[folder], ".DS_Store")
  /\ fs' = [fs EXCEPT ![folder].files[".DS_Store"] = UserFile]
  /\ edits' = edits + 1
  /\ UNCHANGED <<cfg, opts, pc, idx, cnt, zips, it, runNo, repeat, arg, res>>

NoArgRes == [kind |-> "none", value |-> FALSE]

Init ==
  /\ cfg \in Configs
  /\ opts = NoOptions
  /\ pc = "idle"
  /\ idx = 0
  /\ cnt = ZeroCounts
  /\ fs = [f \in Folders |-> EmptyDir]
  /\ zips = [z \in ZipNames |-> NoZip]
  /\ it = NoIter
  /\ runNo = 0
  /\ repeat = FALSE
  /\ edits = 0
  /\ arg = NoArgRes
  /\ res = NoArgRes

Next ==
  \/ \E o \in RunOptions : StartRun(o)
  \/ RepeatRun
  \/ Iterate
  \/ LegacyIterate
  \/ FinishRun
  \/ Exit
  \/ \E folder \in Folders, files \in (SUBSET UserAssets) \ {{}} : UserPutAssets(folder, files)
  \/ \E folder \in Folders : UserEdit(folder)

Spec == Init /\ [][Next]_vars

\* the runs that package: every run is given --zip
NextZip ==
  \/ \E o \in ZipOptions : StartRun(o)
  \/ RepeatRun
  \/ Iterate
  \/ LegacyIterate
  \/ FinishRun
  \/ Exit
  \/ \E folder \in Folders : OsMetadata(folder)

SpecZip == Init /\ [][NextZip]_vars

\* the runs that are given --template and --clicktag: a template that is on disk and
\* one that is not, and a click-through URL
OverrideOptions ==
  [ entry : {"cli"}, mode : Modes, shouldZip : {FALSE}, filters : {buildFilters(NoSet, NoCli)},
    templateOverride : {Null, Str("rich"), Str("gone")},
    clicktagOverride : {Null, Str("https://cli")}, campaignOverride : {Null} ]
  \cup
  [ entry : {"legacy"}, mode : {"none"}, shouldZip : {FALSE},
    filters : {buildFilters(NoSet, NoCli)},
    templateOverride : {Null}, clicktagOverride : {Null, Str("https://cli")},
    campaignOverride : {Null} ]

NextOverrides ==
  \/ \E o \in OverrideOptions : StartRun(o)
  \/ RepeatRun
  \/ Iterate
  \/ LegacyIterate
  \/ FinishRun
  \/ Exit

SpecOverrides == Init /\ [][NextOverrides]_vars

\* the generator is not running: the state of the pure-function specifications
GeneratorAtRest ==
  /\ cfg = <<1>>
  /\ opts = NoOptions
  /\ pc = "idle"
  /\ idx = 0
  /\ cnt = ZeroCounts
  /\ fs = [f \in Folders |-> EmptyDir]
  /\ zips = [z \in ZipNames |-> NoZip]
  /\ it = NoIter
  /\ runNo = 0
  /\ repeat = FALSE
  /\ edits = 0

generatorVars == <<cfg, opts, pc, idx, cnt, fs, zips, it, runNo, repeat, edits>>

\* -------------------- matchesFilters on its own --------------------

\* texts of the --only-* values
OnlySizeArgs == {NoArg, ArgOf(<<"7", "2", "8", "x", "9", "0">>)}

OnlyLangArgs ==
  {NoArg, ArgOf(<<"e", "n">>), ArgOf(<<" ", "e", "n", " ", ",", "d", "e">>), ArgOf(<<",">>)}

OnlyMotiveArgs == {NoArg, ArgOf(<<"m", "1">>)}

OnlyTemplateArgs == {NoArg, ArgOf(<<"r", "i", "c", "h">>)}

OnlyIndexArgs ==
  {NoArg, ArgOf(<<"0">>), ArgOf(<<"1", ",", " ", "2">>), ArgOf(<<"a", ",", "-", "1">>)}

FilterInputs ==
  [ kind : {"filters"},
    value : [ fmt : FormatIds, idx : 0..MaxFormats,
              templateOverride : {Null, Str("standard")},
              sizes : {NoSet, SetOf({"300x250"})},
              cli : [size : OnlySizeArgs, lang : OnlyLangArgs, motive : OnlyMotiveArgs,
                     template : OnlyTemplateArgs, index : OnlyIndexArgs] ] ]

FiltersOf(a) == buildFilters(a.sizes, a.cli)

InitFilters ==
  /\ GeneratorAtRest
  /\ arg \in FilterInputs
  /\ res = NoArgRes

\* matchesFilters({fmt, idx, cfg, templateOverride, filters}) is called
Match ==
  /\ arg.kind = "filters"
  /\ res.kind = "none"
  /\ res' = [kind |-> "matched",
             value |-> matchesFilters(FormatUniverse[arg.value.fmt], arg.value.idx, CfgObject,
                                      arg.value.templateOverride, FiltersOf(arg.value))]
  /\ UNCHANGED <<arg, generatorVars>>

SpecFilters == InitFilters /\ [][Match]_vars

\* -------------------- stableStringify on its own --------------------

RECURSIVE SemEq(_, _)
\* the same JSON value: mappings compared key by key, sequences element by element
SemEq(a, b) ==
  /\ a.t = b.t
  /\ CASE a.t = "obj" -> /\ Keys(a) = Keys(b)
                         /\ \A k \in Keys(a) : SemEq(Get(a, k), Get(b, k))
       [] a.t = "arr" -> /\ Len(a.kv) = Len(b.kv)
                         /\ \A i \in 1..Len(a.kv) : SemEq(a.kv[i][2], b.kv[i][2])
       [] OTHER -> a.s = b.s

Perms(n) == {f \in [1..n -> 1..n] : \A i, j \in 1..n : f[i] = f[j] => i = j}

RECURSIVE SeqProduct(_)
\* the sequences that take their i-th element from sets[i]
SeqProduct(sets) ==
  IF sets = <<>> THEN {<<>>}
  ELSE {<<x>> \o rest : x \in Head(sets), rest \in SeqProduct(Tail(sets))}

RECURSIVE KeyPermutations(_)
\* the values that are v with the keys of its mappings permuted, at every depth
KeyPermutations(v) ==
  CASE v.t = "obj" ->
         UNION { { Obj([i \in 1..Len(v.kv) |-> <<v.kv[p[i]][1], vals[i]>>]) :
                     vals \in SeqProduct([i \in 1..Len(v.kv) |-> KeyPermutations(v.kv[p[i]][2])]) } :
                 p \in Perms(Len(v.kv)) }
    [] v.t = "arr" ->
         { [v EXCEPT !.kv = [i \in 1..Len(v.kv) |-> <<"", vals[i]>>]] :
             vals \in SeqProduct([i \in 1..Len(v.kv) |-> KeyPermutations(v.kv[i][2])]) }
    [] OTHER -> {v}

RECURSIVE Reorderings(_)
\* the values that are v with the elements of one of its sequences in another order
Reorderings(v) ==
  CASE v.t = "arr" ->
         { [v EXCEPT !.kv = [i \in 1..Len(v.kv) |-> v.kv[p[i]]]] :
             p \in {q \in Perms(Len(v.kv)) :
                      \E i \in 1..Len(v.kv) : ~SemEq(v.kv[i][2], v.kv[q[i]][2])} }
         \cup UNION { { [v EXCEPT !.kv[i] = <<"", w>>] : w \in Reorderings(v.kv[i][2]) } :
                      i \in 1..Len(v.kv) }
    [] v.t = "obj" ->
         UNION { { [v EXCEPT !.kv[i] = <<v.kv[i][1], w>>] : w \in Reorderings(v.kv[i][2]) } :
                 i \in 1..Len(v.kv) }
    [] OTHER -> {}

\* a FormatSpec with a nested mapping, and one with sequences of scalars and mappings
SigValues ==
  { FormatUniverse[4],
    Obj(<< <<"width", Num("300")>>,
           <<"brand", Obj(<< <<"type", Str("rich")>>, <<"size", Str("40kb")>> >>)>>,
           <<"motive", Arr(<< Str("m1"), Num("90"),
                              Obj(<< <<"lang", Str("en")>>, <<"height", Num("250")>> >>) >>)>> >>) }

SigInputs ==
  UNION { UNION { { [kind |-> "sig", value |-> [v |-> v, p |-> p, q |-> q, reordered |-> q # p]] :
                      q \in Reorderings(p) \cup {p} } :
                  p \in KeyPermutations(v) } :
          v \in SigValues }

InitSig ==
  /\ GeneratorAtRest
  /\ arg \in SigInputs
  /\ res = NoArgRes

\* the three values are fingerprinted
Fingerprint ==
  /\ arg.kind = "sig"
  /\ res.kind = "none"
  /\ res' = [kind |-> "sigs",
             value |-> [v |-> stableStringify(arg.value.v), p |-> stableStringify(arg.value.p),
                        q |-> stableStringify(arg.value.q)]]
  /\ UNCHANGED <<arg, generatorVars>>

SpecSig == InitSig /\ [][Fingerprint]_vars

\* -------------------- properties of the generator --------------------

\* formats[idx], the entry the next pass of the loop is about
fmtAtIdx == FormatUniverse[cfg[idx + 1]]

\* a pass of the loop of bin/cli.js is due, and its entry passes the filters and has
\* finite dimensions
CliPassDue ==
  /\ pc = "loop"
  /\ opts.entry = "cli"
  /\ idx < Len(cfg)
  /\ matchesFilters(fmtAtIdx, idx, CfgObject, opts.templateOverride, opts.filters)
  /\ ValidFormat(fmtAtIdx)

\* the artifact of formats[idx] exists: its index.html is there
ArtifactExists == Has(fs[FolderOf(fmtAtIdx)], "index.html")

\* the artifact of formats[idx] is stale: no readable state record, or the listing of
\* assets/ or the fingerprint of the entry differs from what the record holds
ArtifactStale ==
  LET d == fs[FolderOf(fmtAtIdx)]
      prev == d.files[".gen-state.json"]
  IN  \/ prev.k # "state"
      \/ prev.assets # readAssets(d)
      \/ prev.sig # stableStringify(fmtAtIdx)

\* C1: a second incremental run of the same command, nothing having changed in
\* between, creates and updates nothing.
C1_SecondRunIdle ==
  (pc = "done" /\ repeat /\ opts.entry = "cli" /\ opts.mode = "incremental")
    => (cnt.created = 0 /\ cnt.updated = 0)

\* C2: in create-only mode an existing artifact, and in update mode a missing one,
\* is left alone: no file and no archive is written, the skipped count goes up by
\* one and no other counter moves.
C2_ModeSkipFrame ==
  [][ ( /\ CliPassDue
        /\ \/ opts.mode = "create-only" /\ ArtifactExists
           \/ opts.mode = "update" /\ ~ArtifactExists )
      => ( /\ fs' = fs
           /\ zips' = zips
           /\ cnt' = [cnt EXCEPT !.skipped = @ + 1]
           /\ pc' = "loop"
           /\ idx' = idx + 1 ) ]_vars

C2_Witness ==
  /\ it.outcome = "skipped-by-mode"
  /\ opts.mode = "create-only"
  /\ Has(fs[it.folder], "index.html")
  /\ cnt.skipped = 1
  /\ cnt.processed = 0

\* C3: in incremental mode a pass counts the artifact as created exactly when it
\* was missing and as updated exactly when it existed and was stale; an existing
\* artifact that is not stale is not written to, and a created or updated one holds
\* the rendering of its entry by the sources it has, and the state record of the entry.
C3_IncrementalDecision ==
  [][ (CliPassDue /\ opts.mode = "incremental"
         /\ getTemplateRoot(fmtAtIdx, CfgObject, opts.templateOverride) \in TemplatesOnDisk)
      => LET f == FolderOf(fmtAtIdx)
         IN  /\ cnt'.created = cnt.created + (IF ~ArtifactExists THEN 1 ELSE 0)
             /\ cnt'.updated = cnt.updated + (IF ArtifactExists /\ ArtifactStale THEN 1 ELSE 0)
             /\ (ArtifactExists /\ ~ArtifactStale)
                  => (fs' = fs /\ cnt'.skipped = cnt.skipped + 1)
             /\ (~ArtifactExists \/ ArtifactStale)
                  => /\ Has(fs'[f], "index.html.mustache")
                          => /\ fs'[f].files["index.html"].k = "out"
                             /\ fs'[f].files["index.html"].fmt = cfg[idx + 1]
                     /\ fs'[f].files[".gen-state.json"].k = "state"
                     /\ fs'[f].files[".gen-state.json"].sig = stableStringify(fmtAtIdx) ]_vars

C3_Witness ==
  /\ opts.mode = "incremental"
  /\ it.outcome = "updated"
  /\ it.hadState
  /\ it.assetsChanged
  /\ ~it.fmtChanged
  /\ cnt.updated = 1

\* C4: no pass of either generator changes or removes a file that is under assets/
\* of an artifact.
C4_AssetsUntouched ==
  [][ pc = "loop"
      => \A f \in Folders : \A n \in UnderAssets :
           Has(fs[f], n) => fs'[f].files[n] = fs[f].files[n] ]_vars

\* C5: a stylesheet edited by hand in an existing artifact is never replaced by the
\* template's.
C5_HandEditsKept ==
  [][ \A f \in Folders :
        (Has(fs[f], "index.html") /\ fs[f].files["style.css"].from = "user")
          => fs'[f].files["style.css"].from = "user" ]_vars

\* C10: a run over a configuration that holds an entry whose width or height is not
\* a finite number never completes.
C10_InvalidEntryAborts ==
  pc = "done" => \A i \in 1..Len(cfg) : ValidFormat(FormatUniverse[cfg[i]])

\* -------------------- properties of packaging --------------------

\* C7: the size check tells ok exactly when the archive is no larger than the
\* declared budget, and with no budget declared tells skipped and does not tell ok.
C7_SizeGuardResult ==
  it.check.called
    => LET B == parseKb(Get(FormatUniverse[cfg[it.i + 1]], "size"))
       IN  /\ B.some => (it.check.ok <=> it.check.actualBytes <= B.n)
           /\ ~B.some => (it.check.skipped /\ ~it.check.ok)

\* C8: a pass of bin/cli.js whose archive comes out over the budget ends as it
\* would have with an archive that fits: the loop goes on to the next entry, the
\* processed count and one of created and updated go up by one.
C8_OversizeNotFatal ==
  [][ ( /\ CliPassDue
        /\ opts.shouldZip
        /\ it'.i = idx
        /\ it'.check.called /\ ~it'.check.skipped /\ ~it'.check.ok )
      => ( /\ pc' = "loop"
           /\ idx' = idx + 1
           /\ cnt'.processed = cnt.processed + 1
           /\ cnt'.created + cnt'.updated = cnt.created + cnt.updated + 1
           /\ cnt'.skipped = cnt.skipped
           /\ zips'[it'.zipName].present ) ]_vars

C8_Witness ==
  /\ pc = "done"
  /\ Len(cfg) = 2
  /\ idx = 2
  /\ cnt.processed = 2
  /\ it.i = 1
  /\ it.check.called /\ ~it.check.skipped /\ ~it.check.ok
  /\ it.check.actualBytes > it.check.maxBytes

\* -------------------- properties of the filters --------------------

\* C6: an entry passes exactly when it satisfies every filter that was supplied;
\* with none supplied it passes.
C6_FilterConjunction ==
  res.kind = "matched"
    => LET a == arg.value
           fmt == FormatUniverse[a.fmt]
           filters == FiltersOf(a)
       IN  res.value <=>
             /\ filters.onlyIndex.on => a.idx \in filters.onlyIndex.set
             /\ filters.onlySize.on
                  => normalizeSize(Get(fmt, "width"), Get(fmt, "height")) \in filters.onlySize.set
             /\ filters.onlyLang.on
                  => ToStr(resolveLangAndMotive(fmt).langCode) \in filters.onlyLang.set
             /\ filters.onlyMotive.on
                  => ToStr(resolveLangAndMotive(fmt).motiveName) \in filters.onlyMotive.set
             /\ filters.onlyTemplate.on
                  => getTemplateRoot(fmt, CfgObject, a.templateOverride)
                       \in filters.onlyTemplate.set

C6_Witness ==
  /\ res.kind = "matched"
  /\ res.value
  /\ FiltersOf(arg.value).onlyLang.on
  /\ FiltersOf(arg.value).onlyIndex.on
  /\ FiltersOf(arg.value).onlySize.on

\* -------------------- properties of the fingerprint --------------------

\* C9: values that differ only in the order of the keys of their mappings, at any
\* depth, have the same fingerprint; values that differ in the order of the elements
\* of a sequence have different fingerprints.
C9_FingerprintDeterminism ==
  res.kind = "sigs"
    => /\ res.value.p = res.value.v
       /\ arg.value.reordered => res.value.q # res.value.p
       /\ ~arg.value.reordered => res.value.q = res.value.p

C9_Witness ==
  /\ res.kind = "sigs"
  /\ arg.value.p # arg.value.v
  /\ arg.value.reordered
  /\ res.value.p = res.value.v

\* -------------------- properties of the runs with overrides --------------------

\* the mode's create/skip decision lets formats[idx] through
PassesMode ==
  /\ ~(opts.mode = "create-only" /\ ArtifactExists)
  /\ ~(opts.mode = "update" /\ ~ArtifactExists)

\* C11: a pass for a format that passes the filters and the mode, whose template
\* root is not on disk, aborts the run and leaves every directory, file, archive
\* and counter as it was.
C11_MissingTemplateFatal ==
  [][ ( /\ CliPassDue
        /\ PassesMode
        /\ getTemplateRoot(fmtAtIdx, CfgObject, opts.templateOverride) \notin TemplatesOnDisk )
      => ( /\ pc' = "aborted"
           /\ fs' = fs
           /\ zips' = zips
           /\ cnt' = cnt ) ]_vars

C11_Witness ==
  /\ pc = "aborted"
  /\ it.outcome = "no-template"
  /\ opts.templateOverride = Str("gone")
  /\ ~fs[it.folder].dir
  /\ ~Has(fs[it.folder], "index.html")

\* the archive name of formats[idx]
zipNameAtIdx ==
  LET lm == resolveLangAndMotive(fmtAtIdx)
  IN  makeZipName(campaignOf(opts), lm.langCode, lm.motiveName,
                  ToNumber(Get(fmtAtIdx, "width")).n, ToNumber(Get(fmtAtIdx, "height")).n)

\* no earlier entry of the list has the artifact directory of formats[idx]
FirstOfItsDirectory ==
  \A j \in 1..idx :
    ValidFormat(FormatUniverse[cfg[j]]) => FolderOf(FormatUniverse[cfg[j]]) # FolderOf(fmtAtIdx)

\* C12: in a run that packages, every pass for a format that passes the filters and
\* the mode packages the artifact, rendered in that pass or not, and checks the
\* archive against the budget when the format declares one (stated for the entries
\* that share their directory with no earlier entry).
C12_PackagedOnRequest ==
  [][ ( /\ CliPassDue
        /\ FirstOfItsDirectory
        /\ opts.shouldZip
        /\ PassesMode
        /\ getTemplateRoot(fmtAtIdx, CfgObject, opts.templateOverride) \in TemplatesOnDisk )
      => ( /\ it'.zipName = zipNameAtIdx
           /\ zips'[zipNameAtIdx].present
           /\ zips'[zipNameAtIdx].of = FolderOf(fmtAtIdx)
           /\ parseKb(Get(fmtAtIdx, "size")).some => it'.check.called ) ]_vars

\* the state record of artifact directory f tells what produced the index.html in it
RecordMatchesOutput(f) ==
  LET rec == fs[f].files[".gen-state.json"]
      out == fs[f].files["index.html"]
  IN  (rec.k = "state" /\ out.k = "out")
        => /\ rec.assets = out.assets
           /\ rec.sig = stableStringify(FormatUniverse[out.fmt])
           /\ rec.tt = out.tt

\* a render input of formats[idx] is not the one the index.html of its artifact was
\* produced with
InputsDiffer ==
  LET d == fs[FolderOf(fmtAtIdx)]
      out == d.files["index.html"]
  IN  \/ stableStringify(FormatUniverse[out.fmt]) # stableStringify(fmtAtIdx)
      \/ out.assets # readAssets(d)
      \/ out.tt # getTemplateRoot(fmtAtIdx, CfgObject, opts.templateOverride)
      \/ out.click # clicktagOf(opts, fmtAtIdx)

\* C13: when a run of bin/cli.js completes, every state record tells the inputs the
\* rendered output beside it was produced with; and an incremental pass over an
\* existing artifact re-renders it whenever a current render input differs from
\* what its output was produced with.
C13_StateReflectsInputs ==
  [][ /\ (pc = "done" /\ opts.entry = "cli") => \A f \in Folders : RecordMatchesOutput(f)
      /\ ( /\ CliPassDue
           /\ FirstOfItsDirectory
           /\ opts.mode = "incremental"
           /\ ArtifactExists
           /\ fs[FolderOf(fmtAtIdx)].files["index.html"].k = "out"
           /\ Has(fs[FolderOf(fmtAtIdx)], "index.html.mustache")
           /\ templateRootExists(getTemplateRoot(fmtAtIdx, CfgObject, opts.templateOverride))
           /\ InputsDiffer )
         => /\ cnt'.updated = cnt.updated + 1
            /\ fs'[FolderOf(fmtAtIdx)].files["index.html"].click = clicktagOf(opts, fmtAtIdx) ]_vars

\* -------------------- properties of the artifact directories --------------------

\* C14: the entries a run of bin/cli.js has rendered so far, being different
\* FormatSpecs, have different artifact directories.
C14_OneArtifactPerEntry ==
  (pc \in {"loop", "done"} /\ opts.entry = "cli" /\ cnt.processed = idx)
    => \A i, j \in 1..idx :
         (i < j /\ cfg[i] # cfg[j])
           => FolderOf(FormatUniverse[cfg[i]]) # FolderOf(FormatUniverse[cfg[j]])

\* -------------------- properties of the archives --------------------

\* the files the Packager leaves out: dynamic sources, metadata of the operating
\* system, the state record
PackagerExcluded ==
  {"index.html.mustache", "assets/b.svg.mustache", ".DS_Store", ".gen-state.json"}

\* C15: the archive a pass of either generator writes holds exactly the files of the
\* artifact directory at that time, less the dynamic sources, the metadata files
\* of the operating system and the state record.
C15_ArchiveContents ==
  [][ (pc = "loop" /\ it'.zipName # "")
      => zips'[it'.zipName].files
           = {n \in FileNames : Has(fs'[it'.folder], n)} \ PackagerExcluded ]_vars

\* -------------------- the steps of a pass, one await at a time --------------------

\* the awaited steps of one pass of the loop, in the order of the source: of
\* bin/cli.js (existence test, template copy, asset scan, render, state write,
\* archive, size check, counters) and of the earlier generator
StepsOf(entry, zip) ==
  IF entry = "cli"
    THEN <<"exists", "copy", "scan", "render", "state">>
         \o (IF zip THEN <<"zip", "check">> ELSE <<>>) \o <<"count">>
    ELSE <<"copy", "scan", "render">> \o (IF zip THEN <<"zip">> ELSE <<>>) \o <<"count">>

\* the steps of bin/cli.js after which `continue` may end the pass: the mode's skip
\* after the existence test, the not-stale skip after the asset scan
SkipAfter == {"exists", "scan"}

\* the promise of zipFolder, were it resolved once archive.finalize() has been called
ZipResolvesOnFinalize == "finalize"

\* output.on("close", resolve): the promise of zipFolder is resolved by the close
\* event of the output stream
zipResolvesOn == "close"

\* the order of the events of one pass; "closed" is the close of the archive's stream
StepRank ==
  [ exists |-> 1, copy |-> 2, scan |-> 3, render |-> 4, state |-> 5, zip |-> 6,
    closed |-> 7, check |-> 8, count |-> 9, abort |-> 10 ]

StepInputs ==
  [ kind : {"steps"},
    value : [n : 1..MaxFormats, zip : BOOLEAN, entry : {"cli", "legacy"}] ]

\* position k of the step list of the run, 0 when the step is not in it
StepIndex(name) ==
  LET steps == StepsOf(arg.value.entry, arg.value.zip)
  IN  IF \E k \in 1..Len(steps) : steps[k] = name
        THEN CHOOSE k \in 1..Len(steps) : steps[k] = name
        ELSE 0

\* the loop moves to the next entry
NextPass(r) ==
  [r EXCEPT !.i = @ + 1, !.at = StepsOf(arg.value.entry, arg.value.zip)[1], !.done = ""]

\* the step after step `name` of the same pass, or the next pass after the last
AfterStep(r, name) ==
  LET steps == StepsOf(arg.value.entry, arg.value.zip)
      k == StepIndex(name)
  IN  IF k = Len(steps) THEN NextPass(r) ELSE [r EXCEPT !.at = steps[k + 1], !.done = name]

InitSteps ==
  /\ GeneratorAtRest
  /\ arg \in StepInputs
  /\ res = [kind |-> "steps",
            value |-> [i |-> 0, at |-> StepsOf(arg.value.entry, arg.value.zip)[1], done |-> "",
                       stream |-> "none", owner |-> 0, aborted |-> FALSE, log |-> <<>>]]

Running == res.kind = "steps" /\ ~res.value.aborted /\ res.value.i < arg.value.n

\* an awaited filesystem operation, the size check or the counters: the program goes
\* on when it has completed
Step ==
  /\ Running
  /\ res.value.at \notin {"zip", "zip-wait"}
  /\ res' = [res EXCEPT !.value =
               AfterStep([@ EXCEPT !.log = Append(@, <<res.value.i, res.value.at>>)],
                         res.value.at)]
  /\ UNCHANGED <<arg, generatorVars>>

\* zipFolder up to archive.finalize(): the stream is open, the promise is pending
ZipStart ==
  /\ Running
  /\ res.value.at = "zip"
  /\ res' = [res EXCEPT !.value.at = "zip-wait", !.value.stream = "finalized",
                        !.value.owner = res.value.i,
                        !.value.log = Append(@, <<res.value.i, "zip">>)]
  /\ UNCHANGED <<arg, generatorVars>>

\* the output stream of the archive has been written out and closes
StreamClose ==
  /\ res.kind = "steps"
  /\ res.value.stream = "finalized"
  /\ res' = [res EXCEPT !.value.stream = "closed",
                        !.value.log = Append(@, <<res.value.owner, "closed">>)]
  /\ UNCHANGED <<arg, generatorVars>>

\* await zipFolder(...) returns
ZipResolved ==
  /\ Running
  /\ res.value.at = "zip-wait"
  /\ IF zipResolvesOn = "close" THEN res.value.stream = "closed"
                                ELSE res.value.stream \in {"finalized", "closed"}
  /\ res' = [res EXCEPT !.value = AfterStep(@, "zip")]
  /\ UNCHANGED <<arg, generatorVars>>

\* `continue`: the pass ends early
Skip ==
  /\ Running
  /\ arg.value.entry = "cli"
  /\ res.value.done \in SkipAfter
  /\ res' = [res EXCEPT !.value = NextPass(@)]
  /\ UNCHANGED <<arg, generatorVars>>

\* the step the program is at throws: the error goes up to main().catch
Throw ==
  /\ Running
  /\ res.value.at # "zip-wait"
  /\ res' = [res EXCEPT !.value.aborted = TRUE,
                        !.value.log = Append(@, <<res.value.i, "abort">>)]
  /\ UNCHANGED <<arg, generatorVars>>

NextSteps == Step \/ ZipStart \/ StreamClose \/ ZipResolved \/ Skip \/ Throw

SpecSteps == InitSteps /\ [][NextSteps]_vars

\* C16: the events of a run come in the order of the list and, within a pass, in
\* the order of the steps: every step of an entry, the close of its archive
\* included, comes before the size check of that archive and before any step of a
\* later entry, and nothing comes after an abort.
C16_StrictlySequential ==
  res.kind = "steps"
    => \A a, b \in 1..Len(res.value.log) :
         a < b
           => /\ res.value.log[a][2] # "abort"
              /\ \/ res.value.log[a][1] < res.value.log[b][1]
                 \/ /\ res.value.log[a][1] = res.value.log[b][1]
                    /\ StepRank[res.value.log[a][2]] < StepRank[res.value.log[b][2]]

C16_Witness ==
  /\ res.kind = "steps"
  /\ arg.value.entry = "cli"
  /\ arg.value.zip
  /\ res.value.i = 2
  /\ \E a, b \in 1..Len(res.value.log) :
       /\ res.value.log[a] = <<0, "check">>
       /\ res.value.log[b] = <<1, "exists">>
       /\ a < b

\* -------------------- C17 --------------------

\* C17: a run that aborts has left no output: it counts no artifact as created or
\* updated, and when it is the first run over an empty output root, no artifact
\* directory exists after the abort.
C17_AbortLeavesNothing ==
  pc = "aborted"
    => /\ cnt.created = 0
       /\ cnt.updated = 0
       /\ runNo = 1 => \A f \in Folders : fs[f] = EmptyDir

\* -------------------- C18 --------------------

\* logSummary({processed, created, updated, skipped, filteredOut, mode, outRoot,
\* shouldZip, zipRoot}): the lines it prints, by their label, with the number or the
\* path printed on each
logSummary(c, o) ==
  ("Processed" :> c.processed)
  @@ (IF c.filteredOut # 0 THEN ("Filtered out" :> c.filteredOut) ELSE <<>>)
  @@ (IF o.mode = "create-only"
        THEN ("Created" :> c.created) @@ ("Skipped existing" :> c.skipped)
      ELSE IF o.mode = "update"
        THEN ("Updated" :> c.updated) @@ ("Skipped missing" :> c.skipped)
      ELSE ("Incremental: created" :> c.created) @@ ("updated" :> c.updated)
           @@ ("skipped" :> c.skipped))
  @@ ("Output" :> campaignOf(o))
  @@ (IF o.shouldZip THEN ("Zipped to" :> "output/zip") ELSE <<>>)

\* the lines of the summary that tell of the counters and of the paths of the run
CountAndPathLines ==
  { "Processed", "Filtered out", "Created", "Updated", "Skipped existing", "Skipped missing",
    "Incremental: created", "updated", "skipped", "Output", "Zipped to" }

\* C18: the summary of a completed run of bin/cli.js in which the size check found
\* an archive over its budget has a line about the oversize archives, beyond the
\* lines of the counters and of the paths.
C18_SummaryTellsOversize ==
  ( /\ pc = "done"
    /\ opts.entry = "cli"
    /\ it.check.called /\ ~it.check.skipped /\ ~it.check.ok )
  => DOMAIN logSummary(cnt, opts) \ CountAndPathLines # {}

\* -------------------- C19 --------------------

\* C19: the click-through URL rendered into the output of a pass that instantiates
\* the template and renders it, in either generator, is the one given on the command
\* line when there is one, else the one the entry declares, else the one of the
\* campaign, else the fixed fallback.
C19_ClicktagResolution ==
  [][ ( /\ pc = "loop"
        /\ idx < Len(cfg)
        /\ idx' = idx + 1
        /\ it'.copied
        /\ it'.rendered )
      => fs'[it'.folder].files["index.html"].click =
           ToStr(Coalesce(opts.clicktagOverride,
                   Coalesce(Get(fmtAtIdx, "clicktag"),
                     Coalesce(Get(CfgObject, "clicktag"), Str(DEFAULT_CLICKTAG))))) ]_vars

\* -------------------- the preview page --------------------

\* sourceRoot, as the path below itself
PreviewRoot == <<>>

\* the artifact directories below sourceRoot: campaign, then language or motive when
\* there is one, then the size
ArtifactDirs ==
  { <<"my_camp", "en", "300x250">>, <<"my_camp", "m1", "728x90">>, <<"my_camp", "300x600">> }

\* the directories that exist when the directories of `index` hold an index.html
DirsOf(index) ==
  UNION {{SubSeq(d, 1, k) : k \in 0..Len(d)} : d \in index} \cup {PreviewRoot}

\* the entries of fs.readdir(dir) that are directories
SubDirs(dir, index) ==
  {c \in DirsOf(index) : Len(c) = Len(dir) + 1 /\ SubSeq(c, 1, Len(dir)) = dir}

RECURSIVE walk(_, _)
\* walk(dir) of bin/cli.js: a directory with an index.html is found and not entered,
\* but for the index.html of rootDir itself, which is passed over
walk(dir, index) ==
  IF dir \in index /\ dir # PreviewRoot
    THEN {dir}
    ELSE UNION {walk(c, index) : c \in SubDirs(dir, index)}

collectBannerIndexFiles(index) == walk(PreviewRoot, index)

RECURSIVE legacyWalk(_, _)
\* walk(dir) of the earlier generator: any directory with an index.html is found and
\* not entered
legacyWalk(dir, index) ==
  IF dir \in index
    THEN {dir}
    ELSE UNION {legacyWalk(c, index) : c \in SubDirs(dir, index)}

legacyCollectBannerIndexFiles(index) == legacyWalk(PreviewRoot, index)

\* arg.value.index: the directories that hold an index.html; arg.value.preview: whether
\* sourceRoot holds _preview.html; res.value: the last listing and who made it
InitPreview ==
  /\ GeneratorAtRest
  /\ arg = [kind |-> "preview", value |-> [index |-> {}, preview |-> FALSE]]
  /\ res = [kind |-> "preview", value |-> [found |-> {}, by |-> "none"]]

\* a run of a generator makes the artifact in directory d
GenerateArtifact(d) ==
  /\ arg.kind = "preview"
  /\ d \notin arg.value.index
  /\ arg' = [arg EXCEPT !.value.index = @ \cup {d}]
  /\ UNCHANGED <<res, generatorVars>>

\* generateGlobalPreviewPage of bin/cli.js: lists, writes sourceRoot/_preview.html
PreviewPage ==
  /\ arg.kind = "preview"
  /\ res' = [res EXCEPT !.value = [found |-> collectBannerIndexFiles(arg.value.index),
                                   by |-> "cli"]]
  /\ arg' = [arg EXCEPT !.value.preview = TRUE]
  /\ UNCHANGED generatorVars

\* generateGlobalPreviewPage of the earlier generator: lists, writes
\* sourceRoot/index.html
LegacyPreviewPage ==
  /\ arg.kind = "preview"
  /\ res' = [res EXCEPT !.value = [found |-> legacyCollectBannerIndexFiles(arg.value.index),
                                   by |-> "legacy"]]
  /\ arg' = [arg EXCEPT !.value.index = @ \cup {PreviewRoot}]
  /\ UNCHANGED generatorVars

NextPreview ==
  \/ \E d \in ArtifactDirs : GenerateArtifact(d)
  \/ PreviewPage
  \/ LegacyPreviewPage

SpecPreview == InitPreview /\ [][NextPreview]_vars

\* C20: whatever preview pages earlier runs have written, a preview generation lists
\* exactly the artifact directories on disk: every directory below the output root
\* that holds an index.html, and never the output root with its preview page.
C20_PreviewStateless ==
  [][ (res.kind = "preview" /\ res' # res)
      => res'.value.found = arg.value.index \ {PreviewRoot} ]_vars

\* -------------------- C21 --------------------

\* C21: in a run of bin/cli.js, at every loop boundary processed + skipped +
\* filteredOut is the number of entries visited and created + updated is processed;
\* at the end of a completed run they add up to the length of the list; every pass
\* that does not abort raises exactly one of filteredOut, skipped, created and
\* updated by one, created only when the artifact was missing at the start of the
\* pass and updated only when it was there.
C21_CounterAccounting ==
  [][ /\ (pc \in {"loop", "done"} /\ opts.entry = "cli")
           => /\ cnt.processed + cnt.skipped + cnt.filteredOut = idx
              /\ cnt.created + cnt.updated = cnt.processed
      /\ (pc = "done" /\ opts.entry = "cli")
           => cnt.filteredOut + cnt.skipped + cnt.created + cnt.updated = Len(cfg)
      /\ (pc = "loop" /\ opts.entry = "cli" /\ idx < Len(cfg) /\ pc' = "loop")
           => /\ idx' = idx + 1
              /\ (cnt'.filteredOut - cnt.filteredOut) + (cnt'.skipped - cnt.skipped)
                 + (cnt'.created - cnt.created) + (cnt'.updated - cnt.updated) = 1
              /\ cnt'.filteredOut \in {cnt.filteredOut, cnt.filteredOut + 1}
              /\ cnt'.skipped \in {cnt.skipped, cnt.skipped + 1}
              /\ cnt'.created \in {cnt.created, cnt.created + 1}
              /\ cnt'.updated \in {cnt.updated, cnt.updated + 1}
              /\ cnt'.processed + cnt'.skipped + cnt'.filteredOut = idx'
              /\ cnt'.created + cnt'.updated = cnt'.processed
              /\ cnt'.filteredOut > cnt.filteredOut
                   <=> ~matchesFilters(fmtAtIdx, idx, CfgObject, opts.templateOverride,
                                       opts.filters)
              /\ cnt'.created > cnt.created => ~ArtifactExists
              /\ cnt'.updated > cnt.updated => ArtifactExists ]_vars

C21_Witness ==
  /\ pc = "done"
  /\ opts.entry = "cli"
  /\ Len(cfg) = 2
  /\ idx = 2
  /\ cnt.updated = 1
  /\ cnt.processed = 1
  /\ cnt.skipped + cnt.filteredOut = 1

\* -------------------- archive names, character by character --------------------

\* the characters that match \s
Whitespace == {" "}

\* the characters that match [\w.-]
NameChars ==
  { "a", "c", "e", "m", "n", "p", "x", "y", "0", "1", "2", "3", "5", "7", "8", "9",
    "_", ".", "-" }

\* the characters of the texts below
TextChars == NameChars \cup Whitespace \cup {"/"}

RECURSIVE DropRun(_, _)
\* what is left of cs after its leading run of characters of the class
DropRun(cs, class) ==
  IF cs # <<>> /\ Head(cs) \in class THEN DropRun(Tail(cs), class) ELSE cs

RECURSIVE ReplaceRuns(_, _)
\* String.prototype.replace(/[class]+/g, "_"): every maximal run of characters of
\* the class becomes one underscore
ReplaceRuns(cs, class) ==
  IF cs = <<>> THEN <<>>
  ELSE IF Head(cs) \in class THEN <<"_">> \o ReplaceRuns(DropRun(cs, class), class)
  ELSE <<Head(cs)>> \o ReplaceRuns(Tail(cs), class)

RECURSIVE JoinWith(_, _)
\* Array.prototype.join(sep) on texts
JoinWith(parts, sep) ==
  IF parts = <<>> THEN <<>>
  ELSE IF Len(parts) = 1 THEN parts[1]
  ELSE parts[1] \o <<sep>> \o JoinWith(Tail(parts), sep)

\* the texts of a list that are not empty: .filter(Boolean), and the spread of
\* (x ? [String(x)] : [])
NonEmptyTexts(parts) == SelectSeq(parts, LAMBDA p : p # <<>>)

\* makeZipName({campaign, langCode, motiveName, width, height}), on texts
makeZipNameText(campaign, lang, motive, size) ==
  ReplaceRuns(ReplaceRuns(JoinWith(NonEmptyTexts(<<campaign, lang, motive, size>>), "_"),
                          Whitespace),
              TextChars \ NameChars)
  \o <<".", "z", "i", "p">>

\* bannerFolderFor({outRoot, langCode, motiveName, width, height}), on texts, below
\* outRoot
bannerFolderText(lang, motive, size) == JoinWith(NonEmptyTexts(<<lang, motive, size>>), "/")

CampaignText == <<"m", "y", " ", "c", "a", "m", "p">>

\* language and motive of an entry, <<>> when it has none
LangTexts == {<<>>, <<"e">>, <<"e", "n">>, <<"e", " ", "n">>, <<"e", "_", "n">>}

MotiveTexts == {<<>>, <<"m">>, <<"n", "_", "m">>}

\* `${width}x${height}`
SizeNameTexts == {<<"3", "0", "0", "x", "2", "5", "0">>, <<"7", "2", "8", "x", "9", "0">>}

EntryTexts == [lang : LangTexts, motive : MotiveTexts, size : SizeNameTexts]

\* two entries of one formats list
InitNames ==
  /\ GeneratorAtRest
  /\ arg \in [kind : {"names"}, value : [a : EntryTexts, b : EntryTexts]]
  /\ res = NoArgRes

\* the artifact directory and the archive name of both entries are worked out, as
\* the loop does with --zip
NameBoth ==
  /\ arg.kind = "names"
  /\ res.kind = "none"
  /\ res' = [kind |-> "named",
             value |->
               [ dirA |-> bannerFolderText(arg.value.a.lang, arg.value.a.motive, arg.value.a.size),
                 dirB |-> bannerFolderText(arg.value.b.lang, arg.value.b.motive, arg.value.b.size),
                 zipA |-> makeZipNameText(CampaignText, arg.value.a.lang, arg.value.a.motive,
                                          arg.value.a.size),
                 zipB |-> makeZipNameText(CampaignText, arg.value.b.lang, arg.value.b.motive,
                                          arg.value.b.size) ]]
  /\ UNCHANGED <<arg, generatorVars>>

SpecNames == InitNames /\ [][NameBoth]_vars

\* C22: two entries of one run whose artifact directories differ are packaged to
\* different archive names.
C22_ArchiveNamesDistinct ==
  res.kind = "named"
    => (res.value.dirA # res.value.dirB => res.value.zipA # res.value.zipB)

\* -------------------- a pass that fails while it writes --------------------

\* renderFromMustacheFiles that throws on the file after the sources `done`: only
\* these have been rendered
renderFromMustacheFilesUpTo(d, data, done) ==
  [d EXCEPT !.files = [n \in FileNames |->
     IF \E m \in done : MustacheOut[m] = n /\ Has(d, m)
       THEN Rendered(d.files[CHOOSE m \in done : MustacheOut[m] = n], data)
       ELSE d.files[n]]]

\* the runs of bin/cli.js in the three modes, with and without --clicktag
FaultOptions ==
  [ entry : {"cli"}, mode : Modes, shouldZip : {FALSE}, filters : {buildFilters(NoSet, NoCli)},
    templateOverride : {Null}, clicktagOverride : {Null, Str("https://cli")},
    campaignOverride : {Null} ]

\* a pass of the loop of bin/cli.js that has got to the rendering and is ended by a
\* failed write: of a rendered file, after the sources `done` have been rendered, or,
\* when all have been, of the state record; the error goes up to main().catch
IterateFails ==
  /\ CliPassDue
  /\ LET fmt == fmtAtIdx
         bannerFolder == FolderOf(fmt)
         exists == pathExists(fs[bannerFolder], "index.html")
         templateType == getTemplateRoot(fmt, CfgObject, opts.templateOverride)
         made == ensureTemplateOnCreate(templateType, ensureDir(fs[bannerFolder]), exists)
         assetsFiles == readAssets(made)
         data == [fmt |-> cfg[idx + 1], click |-> clicktagOf(opts, fmt),
                  assets |-> assetsFiles, tt |-> templateType]
     IN  /\ shouldProcessBanner(opts.mode, exists)
         /\ templateRootExists(templateType)
         /\ shouldRenderBanner(opts.mode, exists, readGenState(made), assetsFiles,
                               stableStringify(fmt))
         /\ \E done \in SUBSET {m \in DOMAIN MustacheOut : Has(made, m)} :
              fs' = [fs EXCEPT ![bannerFolder] = renderFromMustacheFilesUpTo(made, data, done)]
         /\ it' = [NoIter EXCEPT !.i = idx, !.folder = bannerFolder, !.exists = exists,
                                 !.copied = ~exists, !.outcome = "io-error"]
  /\ pc' = "aborted"
  /\ UNCHANGED <<cfg, opts, idx, cnt, zips, runNo, repeat, edits, arg, res>>

NextFaults ==
  \/ \E o \in FaultOptions : StartRun(o)
  \/ Iterate
  \/ IterateFails
  \/ FinishRun
  \/ Exit
  \/ \E folder \in Folders, files \in (SUBSET UserAssets) \ {{}} : UserPutAssets(folder, files)

SpecFaults == Init /\ [][NextFaults]_vars

\* C23: the state record is written only by a pass that has rendered every dynamic
\* source of the artifact, and not by a pass that skips; and a pass that is ended by
\* an error before or during its rendering leaves the artifact missing or stale, so
\* that the next incremental run renders it.
C23_StateAfterCompleteRender ==
  [][ (pc = "loop" /\ opts.entry = "cli" /\ idx < Len(cfg) /\ it'.folder # "")
      => LET d == fs'[it'.folder]
             rec == d.files[".gen-state.json"]
         IN  /\ rec # fs[it'.folder].files[".gen-state.json"]
                  => /\ it'.rendered
                     /\ \A m \in DOMAIN MustacheOut :
                          Has(d, m) => /\ d.files[MustacheOut[m]].k = "out"
                                       /\ d.files[MustacheOut[m]].click = clicktagOf(opts, fmtAtIdx)
             /\ it'.outcome \in {"skipped-by-mode", "skipped-fresh"} => d = fs[it'.folder]
             /\ it'.outcome = "io-error"
                  => \/ ~Has(d, "index.html")
                     \/ rec.k # "state"
                     \/ rec.assets # readAssets(d)
                     \/ rec.sig # stableStringify(fmtAtIdx) ]_vars

=============================================================================
